---- MODULE Spec2Model ----
(***************************************************************************)
(* Model of crates/wdk/src/wdf/spinlock.rs: the raw WDF spin lock wrapper  *)
(* SpinLock and the state-based wrapper SafeSpinLock.                      *)
(*                                                                         *)
(* A SafeSpinLock value is a record [tag, inner]; inner is the WDFSPINLOCK *)
(* handle of the wrapped SpinLock (NULL when the variant wraps nothing).   *)
(* A Result<SafeSpinLock, SpinLockError> is a record [ok, variant, lock,   *)
(* code]: lock is the sequence of SafeSpinLock values the result carries,  *)
(* code the sequence of NTSTATUS values it carries.                        *)
(* Every operation consumes the caller's value (self) and the caller goes  *)
(* on with the value found in the result.                                  *)
(***************************************************************************)
EXTENDS Integers, Sequences, FiniteSets, TLC

VARIABLES lock, history, nativeLog, held, handles, halted

vars == <<lock, history, nativeLog, held, handles, halted>>

\* Longest sequence of SafeSpinLock operations explored.
MaxOps == 5

\* core::ptr::null_mut()
NULL == 0

\* NTSTATUS values WdfSpinLockCreate may report: STATUS_SUCCESS,
\* STATUS_INSUFFICIENT_RESOURCES (0xC000009A), STATUS_INVALID_PARAMETER
\* (0xC000000D), as 32-bit signed integers.
NtStatusValues == {0, -1073741670, -1073741811}

\* crate::nt_success: NT_SUCCESS(status) is status >= 0.
nt_success(nt_status) == nt_status >= 0

\* The outcomes of the native WdfSpinLockCreate call: the status it returns
\* and the handle it leaves in the out parameter (a new non-null handle on
\* success, the parameter untouched on failure).
WdfSpinLockCreate(existing) ==
  { [status |-> s,
     handle |-> IF s = 0 THEN Cardinality(existing) + 1 ELSE NULL] :
    s \in NtStatusValues }

----------------------------------------------------------------------------
\* The three variants of enum SafeSpinLock.
Uninitialized == [tag |-> "Uninitialized", inner |-> NULL]
Initialized(spin) == [tag |-> "Initialized", inner |-> spin]
Held(spin) == [tag |-> "Held", inner |-> spin]

\* Result::Ok(lock) and Result::Err(SpinLockError::variant { lock }).
Ok(l) == [ok |-> TRUE, variant |-> "Ok", lock |-> <<l>>, code |-> <<>>]
Err(variant, carried) ==
  [ok |-> FALSE, variant |-> variant, lock |-> carried, code |-> <<>>]

\* A native call as issued by the raw wrapper.
Call(fn, handle) == [fn |-> fn, handle |-> handle]

\* SpinLock::try_new that hands the native call a copy of the handle field,
\* so the SpinLock it returns keeps the null it was built with.
SpinLock_try_new_unwritten(native) ==
  [calls |-> <<Call("WdfSpinLockCreate", NULL)>>,
   ok |-> nt_success(native.status),
   wdf_spin_lock |-> NULL,
   nt_status |-> native.status]

\* SpinLock::try_new: one WdfSpinLockCreate call; Ok(spin_lock) when
\* nt_success(nt_status), Err(nt_status) otherwise.
SpinLock_try_new(native) ==
  [calls |-> <<Call("WdfSpinLockCreate", NULL)>>,
   ok |-> nt_success(native.status),
   wdf_spin_lock |-> IF nt_success(native.status) THEN native.handle ELSE NULL,
   nt_status |-> native.status]

\* SpinLock::create: alias of try_new.
SpinLock_create(native) == SpinLock_try_new(native)

\* SpinLock::acquire: one WdfSpinLockAcquire call on the handle.
SpinLock_acquire(spin) == <<Call("WdfSpinLockAcquire", spin)>>

\* SpinLock::release that calls WdfSpinLockRelease twice.
SpinLock_release_twice(spin) ==
  <<Call("WdfSpinLockRelease", spin), Call("WdfSpinLockRelease", spin)>>

\* SpinLock::release: one WdfSpinLockRelease call on the handle.
SpinLock_release(spin) == <<Call("WdfSpinLockRelease", spin)>>

\* SafeSpinLock::create whose second arm constructs a new SpinLock for a
\* value that already wraps one.
SafeSpinLock_create_again(self, native) ==
  LET r == SpinLock_create(native) IN
  [calls |-> r.calls,
   ret |-> IF r.ok THEN Ok(Initialized(r.wdf_spin_lock))
                   ELSE Err("CreateFailed", <<>>)]

\* SafeSpinLock::create whose success arm wraps the new SpinLock as Held.
SafeSpinLock_create_held(self, native) ==
  IF self.tag = "Uninitialized"
  THEN LET r == SpinLock_create(native) IN
       [calls |-> r.calls,
        ret |-> IF r.ok THEN Ok(Held(r.wdf_spin_lock))
                        ELSE Err("CreateFailed", <<>>)]
  ELSE [calls |-> <<>>, ret |-> Err("AlreadyCreated", <<self>>)]

\* SafeSpinLock::create whose second arm rebuilds the value it returns as
\* Initialized instead of handing self back.
SafeSpinLock_create_retag(self, native) ==
  IF self.tag = "Uninitialized"
  THEN LET r == SpinLock_create(native) IN
       [calls |-> r.calls,
        ret |-> IF r.ok THEN Ok(Initialized(r.wdf_spin_lock))
                        ELSE Err("CreateFailed", <<>>)]
  ELSE [calls |-> <<>>,
        ret |-> Err("AlreadyCreated", <<Initialized(self.inner)>>)]

\* SafeSpinLock::create whose second arm answers CreateFailed, which has no
\* lock field, so the wrapped SpinLock is dropped.
SafeSpinLock_create_drop(self, native) ==
  IF self.tag = "Uninitialized"
  THEN LET r == SpinLock_create(native) IN
       [calls |-> r.calls,
        ret |-> IF r.ok THEN Ok(Initialized(r.wdf_spin_lock))
                        ELSE Err("CreateFailed", <<>>)]
  ELSE [calls |-> <<>>, ret |-> Err("CreateFailed", <<>>)]

\* SafeSpinLock::create(self, attributes); native is the outcome the
\* WdfSpinLockCreate call has if it is made.
SafeSpinLock_create(self, native) ==
  IF self.tag = "Uninitialized"
  THEN LET r == SpinLock_create(native) IN
       [calls |-> r.calls,
        ret |-> IF r.ok THEN Ok(Initialized(r.wdf_spin_lock))
                        ELSE Err("CreateFailed", <<>>)]
  ELSE [calls |-> <<>>, ret |-> Err("AlreadyCreated", <<self>>)]

\* SafeSpinLock::acquire whose success is tagged Held.
SafeSpinLock_acquire_retag(self) ==
  CASE self.tag = "Initialized" ->
         [calls |-> SpinLock_acquire(self.inner),
          ret |-> Ok(Held(self.inner))]
    [] self.tag = "Held" ->
         [calls |-> <<>>, ret |-> Err("AlreadyHeld", <<self>>)]
    [] self.tag = "Uninitialized" ->
         [calls |-> <<>>, ret |-> Err("Uninitialized", <<self>>)]

\* SafeSpinLock::acquire whose Held arm puts a new Uninitialized value in the
\* error instead of self.
SafeSpinLock_acquire_fresh(self) ==
  CASE self.tag = "Initialized" ->
         [calls |-> SpinLock_acquire(self.inner),
          ret |-> Ok(Initialized(self.inner))]
    [] self.tag = "Held" ->
         [calls |-> <<>>, ret |-> Err("AlreadyHeld", <<Uninitialized>>)]
    [] self.tag = "Uninitialized" ->
         [calls |-> <<>>, ret |-> Err("Uninitialized", <<self>>)]

\* SafeSpinLock::acquire(self)
SafeSpinLock_acquire(self) ==
  CASE self.tag = "Initialized" ->
         [calls |-> SpinLock_acquire(self.inner),
          ret |-> Ok(Initialized(self.inner))]
    [] self.tag = "Held" ->
         [calls |-> <<>>, ret |-> Err("AlreadyHeld", <<self>>)]
    [] self.tag = "Uninitialized" ->
         [calls |-> <<>>, ret |-> Err("Uninitialized", <<self>>)]

\* SafeSpinLock::release whose success is tagged Initialized.
SafeSpinLock_release_retag(self) ==
  CASE self.tag = "Held" ->
         [calls |-> SpinLock_release(self.inner),
          ret |-> Ok(Initialized(self.inner))]
    [] self.tag = "Initialized" ->
         [calls |-> <<>>, ret |-> Err("NotHeld", <<self>>)]
    [] self.tag = "Uninitialized" ->
         [calls |-> <<>>, ret |-> Err("Uninitialized", <<self>>)]

\* SafeSpinLock::release whose Initialized arm releases the raw lock.
SafeSpinLock_release_eager(self) ==
  CASE self.tag = "Held" ->
         [calls |-> SpinLock_release(self.inner),
          ret |-> Ok(Held(self.inner))]
    [] self.tag = "Initialized" ->
         [calls |-> SpinLock_release(self.inner),
          ret |-> Ok(Initialized(self.inner))]
    [] self.tag = "Uninitialized" ->
         [calls |-> <<>>, ret |-> Err("Uninitialized", <<self>>)]

\* SafeSpinLock::release with the error variants of its last two arms
\* exchanged.
SafeSpinLock_release_swapped(self) ==
  CASE self.tag = "Held" ->
         [calls |-> SpinLock_release(self.inner),
          ret |-> Ok(Held(self.inner))]
    [] self.tag = "Initialized" ->
         [calls |-> <<>>, ret |-> Err("Uninitialized", <<self>>)]
    [] self.tag = "Uninitialized" ->
         [calls |-> <<>>, ret |-> Err("NotHeld", <<self>>)]

\* SafeSpinLock::release(self)
SafeSpinLock_release(self) ==
  CASE self.tag = "Held" ->
         [calls |-> SpinLock_release(self.inner),
          ret |-> Ok(Held(self.inner))]
    [] self.tag = "Initialized" ->
         [calls |-> <<>>, ret |-> Err("NotHeld", <<self>>)]
    [] self.tag = "Uninitialized" ->
         [calls |-> <<>>, ret |-> Err("Uninitialized", <<self>>)]

----------------------------------------------------------------------------
\* The native side.  held is the set of handles the owner currently holds,
\* handles the set of native lock resources constructed so far, nativeLog
\* every native call made, each with whether the lock was held when the call
\* was made.

RECURSIVE HeldAfter(_, _)
HeldAfter(h, calls) ==
  IF calls = <<>> THEN h
  ELSE LET c == Head(calls) IN
       HeldAfter(CASE c.fn = "WdfSpinLockAcquire" -> h \cup {c.handle}
                   [] c.fn = "WdfSpinLockRelease" -> h \ {c.handle}
                   [] OTHER -> h,
                 Tail(calls))

RECURSIVE Logged(_, _)
Logged(h, calls) ==
  IF calls = <<>> THEN <<>>
  ELSE LET c == Head(calls) IN
       <<[fn |-> c.fn, handle |-> c.handle, heldBefore |-> c.handle \in h]>>
       \o Logged(HeldAfter(h, <<c>>), Tail(calls))

\* A native call that breaks the primitive's contract: acquiring a spin lock
\* the owner already holds spins forever, releasing one that is not held is
\* a bug check on a verifying host.  Either may also return (a host that does
\* not check), so the outcome is a choice.
Misuse(h, calls) ==
  LET l == Logged(h, calls) IN
  IF \E i \in 1..Len(l) : l[i].fn = "WdfSpinLockAcquire" /\ l[i].heldBefore
  THEN "deadlock"
  ELSE IF \E i \in 1..Len(l) : l[i].fn = "WdfSpinLockRelease" /\ ~l[i].heldBefore
  THEN "bugcheck"
  ELSE "no"

\* One operation op applied to the caller's value, with outcome out =
\* [calls, ret]; statuses are the NTSTATUS values the native calls returned
\* and newHandles the handles the native side constructed.  history keeps,
\* for every operation that returned, the value it consumed, its result and
\* the native calls it made.
Step(op, out, statuses, newHandles) ==
  /\ nativeLog' = nativeLog \o Logged(held, out.calls)
  /\ handles' = handles \cup newHandles
  /\ \/ /\ held' = HeldAfter(held, out.calls)
        /\ history' = Append(history, [op |-> op, self |-> lock[1],
                                       ret |-> out.ret, calls |-> out.calls,
                                       statuses |-> statuses])
        /\ lock' = out.ret.lock
        /\ halted' = "no"
     \/ /\ Misuse(held, out.calls) # "no"
        /\ halted' = Misuse(held, out.calls)
        /\ held' = held
        /\ lock' = <<>>
        /\ history' = history

Ready == halted = "no" /\ lock # <<>> /\ Len(history) < MaxOps

Create ==
  /\ Ready
  /\ \E native \in WdfSpinLockCreate(handles) :
       LET out == SafeSpinLock_create(lock[1], native) IN
       Step("create", out,
            IF out.calls # <<>> THEN <<native.status>> ELSE <<>>,
            IF out.calls # <<>> /\ native.handle # NULL
            THEN {native.handle} ELSE {})

Acquire ==
  /\ Ready
  /\ Step("acquire", SafeSpinLock_acquire(lock[1]), <<>>, {})

Release ==
  /\ Ready
  /\ Step("release", SafeSpinLock_release(lock[1]), <<>>, {})

\* The caller, left without a value by CreateFailed, starts again from
\* SafeSpinLock::Uninitialized.
NewUninitialized ==
  /\ halted = "no"
  /\ lock = <<>>
  /\ lock' = <<Uninitialized>>
  /\ UNCHANGED <<history, nativeLog, held, handles, halted>>

Init ==
  /\ lock = <<Uninitialized>>
  /\ history = <<>>
  /\ nativeLog = <<>>
  /\ held = {}
  /\ handles = {}
  /\ halted = "no"

\* Any SafeSpinLock value a caller can build: the variants and their inner
\* field are public, and a raw SpinLock can be created and acquired directly.
InitAny ==
  /\ \E l \in {Uninitialized, Initialized(1), Held(1)} :
       /\ lock = <<l>>
       /\ handles = IF l.inner = NULL THEN {} ELSE {l.inner}
  /\ held \in SUBSET handles
  /\ history = <<>>
  /\ nativeLog = <<>>
  /\ halted = "no"

Next == Create \/ Acquire \/ Release \/ NewUninitialized

Spec == Init /\ [][Next]_vars

SpecAny == InitAny /\ [][Next]_vars

----------------------------------------------------------------------------
\* Views of the logs used by the properties below.

Entries == 1..Len(history)

NativeCount(fn) == Cardinality({i \in 1..Len(nativeLog) : nativeLog[i].fn = fn})

OkCount(op) ==
  Cardinality({i \in Entries : history[i].op = op /\ history[i].ret.ok})

\* The values carried by result ret that wrap handle h.
Owners(ret, h) == {k \in 1..Len(ret.lock) : ret.lock[k].inner = h}

----------------------------------------------------------------------------
\* C1: starting from Uninitialized, WdfSpinLockAcquire is never called on a
\* lock the owner already holds and WdfSpinLockRelease is never called on a
\* lock that is not held.
C1_NoDoubleAcquireOrRelease ==
  \A i \in 1..Len(nativeLog) :
    /\ nativeLog[i].fn = "WdfSpinLockAcquire" => ~nativeLog[i].heldBefore
    /\ nativeLog[i].fn = "WdfSpinLockRelease" => nativeLog[i].heldBefore

\* C2: an acquire that directly follows a successful acquire, on the value
\* that one returned, fails with AlreadyHeld carrying that value and makes
\* no native call.
C2_SecondAcquireAlreadyHeld ==
  \A i \in Entries :
    (/\ i > 1
     /\ history[i-1].op = "acquire" /\ history[i-1].ret.ok
     /\ history[i].op = "acquire"
     /\ <<history[i].self>> = history[i-1].ret.lock)
    => /\ ~history[i].ret.ok
       /\ history[i].ret.variant = "AlreadyHeld"
       /\ history[i].ret.lock = history[i-1].ret.lock
       /\ history[i].calls = <<>>

\* C3: from Uninitialized, with a native construct that succeeds, create,
\* acquire, release, acquire succeed at each of the four steps.
RoundTrip == <<"create", "acquire", "release", "acquire">>

C3_RoundTripSucceeds ==
  \A k \in 1..Len(RoundTrip) :
    (/\ Len(history) >= k
     /\ \A j \in 1..k : history[j].op = RoundTrip[j]
     /\ history[1].self.tag = "Uninitialized"
     /\ history[1].statuses = <<0>>)
    => history[k].ret.ok

\* C4: the tag of the caller's value agrees with the raw lock: Held exactly
\* when the native lock is held by the owner, Initialized exactly when the
\* native resource exists and is not held.
C4_TagAgreesWithRaw ==
  lock # <<>> =>
    /\ lock[1].tag = "Held" <=> lock[1].inner \in held
    /\ lock[1].tag = "Initialized" <=>
         (lock[1].inner \in handles /\ lock[1].inner \notin held)

\* C5: acquire and release on an Uninitialized value fail with Uninitialized
\* carrying a value still tagged Uninitialized and make no native call; the
\* first operation of a sequence from Uninitialized that succeeds is create.
C5_UninitializedRejected ==
  /\ \A i \in Entries :
       (history[i].op \in {"acquire", "release"}
        /\ history[i].self.tag = "Uninitialized")
       => /\ ~history[i].ret.ok
          /\ history[i].ret.variant = "Uninitialized"
          /\ history[i].ret.lock = <<[tag |-> "Uninitialized", inner |-> NULL]>>
          /\ history[i].calls = <<>>
  /\ \A i \in Entries :
       (history[i].ret.ok /\ \A j \in 1..(i-1) : ~history[j].ret.ok)
       => history[i].op = "create"

\* Both operations were rejected on an Uninitialized value and a create then
\* succeeded.
C5_Witness ==
  /\ Len(history) >= 3
  /\ history[1].op = "acquire" /\ history[1].ret.variant = "Uninitialized"
  /\ history[2].op = "release" /\ history[2].ret.variant = "Uninitialized"
  /\ history[3].op = "create" /\ history[3].ret.ok

\* C6: create on an Initialized or Held value fails with AlreadyCreated,
\* makes no native call, and the value in the error has the tag and the
\* handle of the value create was called on.
C6_CreateTwiceRejected ==
  \A i \in Entries :
    (history[i].op = "create"
     /\ history[i].self.tag \in {"Initialized", "Held"})
    => /\ ~history[i].ret.ok
       /\ history[i].ret.variant = "AlreadyCreated"
       /\ history[i].calls = <<>>
       /\ Len(history[i].ret.lock) = 1
       /\ history[i].ret.lock[1].tag = history[i].self.tag
       /\ history[i].ret.lock[1].inner = history[i].self.inner

\* create was rejected on a Held value after a release on it succeeded.
C6_Witness ==
  \E i \in Entries :
    /\ i > 1
    /\ history[i-1].op = "release" /\ history[i-1].ret.ok
    /\ history[i].op = "create" /\ history[i].self.tag = "Held"
    /\ history[i].ret.variant = "AlreadyCreated"

\* C7: release on an Initialized value fails with NotHeld carrying the value
\* still tagged Initialized with the same handle, and makes no native call.
C7_ReleaseNotHeld ==
  \A i \in Entries :
    (history[i].op = "release" /\ history[i].self.tag = "Initialized")
    => /\ ~history[i].ret.ok
       /\ history[i].ret.variant = "NotHeld"
       /\ history[i].ret.lock =
            <<[tag |-> "Initialized", inner |-> history[i].self.inner]>>
       /\ history[i].calls = <<>>

\* release was rejected on the value a successful create had just returned.
C7_Witness ==
  /\ Len(history) = 2
  /\ history[1].op = "create" /\ history[1].ret.ok
  /\ history[2].op = "release" /\ history[2].ret.variant = "NotHeld"
  /\ history[2].self.inner \in handles /\ history[2].self.inner \notin held

\* C8: every operation applied to a value that wraps a handle returns,
\* in success or in any error, exactly one value wrapping that handle; after
\* any sequence of operations that returned, every native lock constructed
\* is wrapped by the one value the caller owns.
C8_HandleNeverLost ==
  /\ \A i \in Entries :
       history[i].self.inner # NULL
       => Cardinality(Owners(history[i].ret, history[i].self.inner)) = 1
  /\ halted = "no" =>
       \A h \in handles : Len(lock) = 1 /\ lock[1].inner = h

\* All three operations were applied to a value wrapping a handle, one of
\* them rejected.
C8_Witness ==
  /\ \A op \in {"create", "acquire", "release"} :
       \E i \in Entries : history[i].op = op /\ history[i].self.inner # NULL
  /\ \E i \in Entries : history[i].self.inner # NULL /\ history[i].ret.ok
  /\ halted = "no"

\* C9 as claimed: every result of every operation carries a SafeSpinLock
\* value, and every error carries the value the operation was called on.
C9_EveryResultCarriesLock ==
  \A i \in Entries :
    /\ Len(history[i].ret.lock) = 1
    /\ ~history[i].ret.ok => history[i].ret.lock = <<history[i].self>>

\* C9: every result other than CreateFailed carries one SafeSpinLock value,
\* every error other than CreateFailed carries the value the operation was
\* called on, and CreateFailed, returned only by create on an Uninitialized
\* value whose native construct failed, carries no value.
C9_ResultCarriesLockUnlessCreateFailed ==
  \A i \in Entries :
    /\ history[i].ret.variant # "CreateFailed" =>
         /\ Len(history[i].ret.lock) = 1
         /\ ~history[i].ret.ok => history[i].ret.lock = <<history[i].self>>
    /\ history[i].ret.variant = "CreateFailed" =>
         /\ history[i].op = "create"
         /\ history[i].self = [tag |-> "Uninitialized", inner |-> NULL]
         /\ Len(history[i].statuses) = 1 /\ history[i].statuses[1] < 0
         /\ history[i].ret.lock = <<>>

\* Along one sequence of operations a create failed natively with
\* CreateFailed and three errors that carry the value back were returned.
C9_Witness ==
  /\ \E i \in Entries : history[i].ret.variant = "CreateFailed"
  /\ \E i \in Entries : history[i].ret.variant = "Uninitialized"
  /\ \E i \in Entries : history[i].ret.variant = "AlreadyCreated"
  /\ \E i \in Entries : history[i].ret.variant = "NotHeld"

\* C10: after any sequence of operations that returned, the number of native
\* acquire (release) calls equals the number of successful acquire (release)
\* operations; a failing operation makes no native acquire or release call
\* and a succeeding acquire (release) makes exactly one.
C10_NativeCallsMatchSuccesses ==
  /\ halted = "no" =>
       /\ NativeCount("WdfSpinLockAcquire") = OkCount("acquire")
       /\ NativeCount("WdfSpinLockRelease") = OkCount("release")
  /\ \A i \in Entries :
       LET e == history[i]
           n(fn) == Cardinality({k \in 1..Len(e.calls) : e.calls[k].fn = fn})
       IN /\ n("WdfSpinLockAcquire") =
               (IF e.op = "acquire" /\ e.ret.ok THEN 1 ELSE 0)
          /\ n("WdfSpinLockRelease") =
               (IF e.op = "release" /\ e.ret.ok THEN 1 ELSE 0)

\* A release succeeded with one native release call on a held lock, and an
\* acquire on the value it returned was rejected.
C10_Witness ==
  /\ OkCount("release") = 1
  /\ NativeCount("WdfSpinLockRelease") = 1
  /\ \A i \in 1..Len(nativeLog) :
       nativeLog[i].fn = "WdfSpinLockRelease" => nativeLog[i].heldBefore
  /\ \E i \in Entries : history[i].op = "acquire" /\ ~history[i].ret.ok
  /\ halted = "no"

\* C11: when the native construct fails during create on an Uninitialized
\* value, the error returned carries the status the construct call reported.
C11_CreateFailedCarriesStatus ==
  \A i \in Entries :
    (/\ history[i].op = "create"
     /\ history[i].self.tag = "Uninitialized"
     /\ ~history[i].ret.ok)
    => history[i].ret.code = history[i].statuses

\* The step that appends to history the result of a create applied to an
\* Uninitialized value.
CreateOnUninitialized ==
  /\ Len(history') = Len(history) + 1
  /\ history'[Len(history')].op = "create"
  /\ history'[Len(history')].self.tag = "Uninitialized"

\* C12: create on an Uninitialized value makes exactly one native call, the
\* construct; it returns a value tagged Initialized wrapping the handle that
\* call constructed exactly when the construct reported success, and
\* CreateFailed otherwise; its success is never tagged Held or Uninitialized.
C12_CreateOnUninitialized ==
  [][CreateOnUninitialized =>
       LET e == history'[Len(history')] IN
       /\ Len(e.calls) = 1 /\ e.calls[1].fn = "WdfSpinLockCreate"
       /\ Len(nativeLog') = Len(nativeLog) + 1
       /\ nativeLog'[Len(nativeLog')].fn = "WdfSpinLockCreate"
       /\ Len(e.statuses) = 1
       /\ e.ret.ok <=> e.statuses[1] >= 0
       /\ e.ret.ok =>
            /\ Len(e.ret.lock) = 1
            /\ e.ret.lock[1].tag = "Initialized"
            /\ e.ret.lock[1].inner # NULL
            /\ handles' \ handles = {e.ret.lock[1].inner}
       /\ ~e.ret.ok =>
            /\ e.ret.variant = "CreateFailed"
            /\ handles' = handles]_vars

\* A create on an Uninitialized value failed natively and, after the caller
\* started again, another one succeeded.
C12_Witness ==
  \E i, j \in Entries :
    /\ i < j
    /\ history[i].op = "create" /\ history[i].ret.variant = "CreateFailed"
    /\ history[j].op = "create" /\ history[j].ret.ok
    /\ history[j].ret.lock[1].inner \in handles

\* C13: a successful acquire or release returns a value with the tag and the
\* handle of the value it was called on: acquire on Initialized{inner} makes
\* the one call inner.acquire() and returns Initialized{inner}; release on
\* Held{inner} makes the one call inner.release() and returns Held{inner}.
C13_SuccessKeepsTag ==
  \A i \in Entries :
    LET e == history[i] IN
    /\ (e.op \in {"acquire", "release"} /\ e.ret.ok) =>
         /\ Len(e.ret.lock) = 1
         /\ e.ret.lock[1].tag = e.self.tag
         /\ e.ret.lock[1].inner = e.self.inner
    /\ (e.op = "acquire" /\ e.self.tag = "Initialized") =>
         /\ e.ret.ok
         /\ e.calls = <<[fn |-> "WdfSpinLockAcquire", handle |-> e.self.inner]>>
         /\ e.ret.lock = <<[tag |-> "Initialized", inner |-> e.self.inner]>>
    /\ (e.op = "release" /\ e.self.tag = "Held") =>
         /\ e.ret.ok
         /\ e.calls = <<[fn |-> "WdfSpinLockRelease", handle |-> e.self.inner]>>
         /\ e.ret.lock = <<[tag |-> "Held", inner |-> e.self.inner]>>

\* A release on a Held value whose raw lock was held succeeded, and the
\* caller now owns the value it returned.
C13_Witness ==
  /\ Len(history) >= 1
  /\ history[Len(history)].op = "release"
  /\ history[Len(history)].ret.ok
  /\ history[Len(history)].self.tag = "Held"
  /\ lock = history[Len(history)].ret.lock
  /\ nativeLog[Len(nativeLog)].fn = "WdfSpinLockRelease"
  /\ nativeLog[Len(nativeLog)].heldBefore

\* C15: from Uninitialized no sequence of create, acquire, release yields a
\* value tagged Held, so release never succeeds and WdfSpinLockRelease is
\* never called.
C15_HeldUnreachable ==
  /\ \A k \in 1..Len(lock) : lock[k].tag \in {"Uninitialized", "Initialized"}
  /\ \A i \in Entries :
       /\ history[i].self.tag # "Held"
       /\ \A k \in 1..Len(history[i].ret.lock) :
            history[i].ret.lock[k].tag # "Held"
       /\ history[i].op = "release" => ~history[i].ret.ok
  /\ NativeCount("WdfSpinLockRelease") = 0

\* An acquire succeeded, the native lock is held, and the release that
\* followed was rejected.
C15_Witness ==
  /\ \E i, j \in Entries :
       /\ i < j
       /\ history[i].op = "acquire" /\ history[i].ret.ok
       /\ history[j].op = "release" /\ history[j].ret.variant = "NotHeld"
  /\ held # {}

\* C16: the native construct is called only by an operation applied to an
\* Uninitialized value, at most one native lock resource is ever created,
\* and after an operation has returned a value tagged Initialized or Held no
\* later operation is applied to, or returns, an Uninitialized one.
C16_CreatedOnce ==
  /\ \A i \in Entries :
       (\E k \in 1..Len(history[i].calls) :
          history[i].calls[k].fn = "WdfSpinLockCreate")
       => history[i].self.tag = "Uninitialized"
  /\ NativeCount("WdfSpinLockCreate") =
       Cardinality({i \in Entries : history[i].op = "create"
                                    /\ history[i].self.tag = "Uninitialized"})
  /\ Cardinality(handles) <= 1
  /\ OkCount("create") <= 1
  /\ \A i, j \in Entries :
       (/\ i <= j
        /\ \/ history[i].self.tag # "Uninitialized"
           \/ \E k \in 1..Len(history[i].ret.lock) :
                history[i].ret.lock[k].tag # "Uninitialized")
       => /\ i < j => history[j].self.tag # "Uninitialized"
          /\ \A k \in 1..Len(history[j].ret.lock) :
               history[j].ret.lock[k].tag # "Uninitialized"
          /\ j = Len(history) /\ halted = "no" =>
               /\ lock # <<>>
               /\ lock[1].tag # "Uninitialized"

\* A create succeeded after a failed one, and a second create and an
\* acquire were applied to the value it returned.
C16_Witness ==
  /\ NativeCount("WdfSpinLockCreate") = 2
  /\ Cardinality(handles) = 1
  /\ \E i \in Entries : history[i].ret.variant = "AlreadyCreated"
  /\ \E i \in Entries : history[i].op = "acquire" /\ history[i].ret.ok

----------------------------------------------------------------------------
\* The raw layer used on its own: a caller constructs SpinLock values with
\* try_new or create and acquires and releases them directly.  history keeps
\* what each construction returned, with the outcome of its native call.

RawReady == halted = "no" /\ Len(nativeLog) < MaxOps

RawConstruct(op, r, native) ==
  /\ history' = Append(history,
                       [op |-> op, native |-> native, calls |-> r.calls,
                        ret |-> [ok |-> r.ok,
                                 wdf_spin_lock |-> r.wdf_spin_lock,
                                 nt_status |-> r.nt_status]])
  /\ nativeLog' = nativeLog \o Logged(held, r.calls)
  /\ handles' = handles \cup
                  (IF native.handle # NULL THEN {native.handle} ELSE {})
  /\ UNCHANGED <<lock, held, halted>>

RawTryNew ==
  /\ RawReady
  /\ \E native \in WdfSpinLockCreate(handles) :
       RawConstruct("try_new", SpinLock_try_new(native), native)

RawCreate ==
  /\ RawReady
  /\ \E native \in WdfSpinLockCreate(handles) :
       RawConstruct("create", SpinLock_create(native), native)

RawCall(calls) ==
  /\ nativeLog' = nativeLog \o Logged(held, calls)
  /\ \/ /\ held' = HeldAfter(held, calls)
        /\ halted' = "no"
     \/ /\ Misuse(held, calls) # "no"
        /\ halted' = Misuse(held, calls)
        /\ held' = held
  /\ UNCHANGED <<lock, history, handles>>

RawAcquire ==
  /\ RawReady
  /\ \E spin \in handles : RawCall(SpinLock_acquire(spin))

RawRelease ==
  /\ RawReady
  /\ \E spin \in handles : RawCall(SpinLock_release(spin))

InitRaw ==
  /\ lock = <<>>
  /\ history = <<>>
  /\ nativeLog = <<>>
  /\ held = {}
  /\ handles = {}
  /\ halted = "no"

NextRaw == RawTryNew \/ RawCreate \/ RawAcquire \/ RawRelease

SpecRaw == InitRaw /\ [][NextRaw]_vars

\* C14: try_new returns Ok(handle) exactly when the native construct returned
\* a success status, and otherwise Err with exactly that status; on Ok the
\* handle's reference is the non-null one the native call wrote; create
\* returns what try_new returns for the same native outcome.
C14_TryNewResult ==
  /\ \A i \in Entries :
       LET e == history[i] IN
       /\ e.calls = <<[fn |-> "WdfSpinLockCreate", handle |-> NULL]>>
       /\ e.ret.ok <=> e.native.status >= 0
       /\ ~e.ret.ok => e.ret.nt_status = e.native.status
       /\ e.ret.ok => /\ e.ret.wdf_spin_lock # NULL
                      /\ e.ret.wdf_spin_lock = e.native.handle
  /\ \A i, j \in Entries :
       (/\ history[i].op = "try_new"
        /\ history[j].op = "create"
        /\ history[i].native = history[j].native)
       => history[i].ret = history[j].ret

\* try_new and create both failed with the same status, both succeeded
\* elsewhere, and a handle one of them returned has been acquired.
C14_Witness ==
  /\ \E i, j \in Entries :
       /\ history[i].op = "try_new" /\ history[j].op = "create"
       /\ ~history[i].ret.ok
       /\ history[i].native = history[j].native
  /\ \E i, j \in Entries :
       /\ history[i].op = "try_new" /\ history[j].op = "create"
       /\ history[i].ret.ok /\ history[j].ret.ok
  /\ \E i \in Entries : history[i].ret.ok /\ history[i].ret.wdf_spin_lock \in held

====
